---- MODULE Spec2Model ----
(***************************************************************************)
(* Model of the jon S-expression pipeline: the Scanner (src/src/reader.rs),*)
(* the Parser (src/src/parser.rs) and the Evaluator (src/src/eval.rs).     *)
(*                                                                         *)
(* A line is a sequence of characters; a character is a one-element string *)
(* label.  Two characters stand for code points whose UTF-8 encoding is    *)
(* two bytes wide: "U+00E9" (an alphabetic letter) and "U+00A0" (a white   *)
(* space).  A panic (unwrap on None/Err, assert_eq!, unreachable!,         *)
(* unimplemented!, todo!, a str slice off a char boundary) is an outcome   *)
(* of its own, distinct from an Ok or an Err return value.                 *)
(***************************************************************************)
EXTENDS Integers, Sequences, FiniteSets

VARIABLES
    text,        \* Scanner.text: the line being scanned
    current_pos, \* Scanner.current_pos
    result,      \* scan_all's accumulated Vec<TokItem>
    tok_start,   \* Scanner.current_pos on entry to the last call of next
    starts,      \* for each pushed token, the cursor on entry to its call of next
    outcome,     \* how the last call of next ended: "none", "ok", "eof", "panic"
    pc,          \* scan_all: "scanning", "done" (returned), "panicked"
    tokens,      \* Parser.tokens
    p_pos,       \* Parser.current_pos
    last,        \* the last parser call: its name, entry cursor and result
    expr,        \* the Expr handed to Evaluator::eval
    value        \* what eval did with it

vars == <<text, current_pos, result, tok_start, starts, outcome, pc,
          tokens, p_pos, last, expr, value>>

lexVars == <<text, current_pos, result, tok_start, starts, outcome, pc>>
parseVars == <<tokens, p_pos, last>>
evalVars == <<expr, value>>

(***************************************************************************)
(* Bounds of the model.                                                    *)
(***************************************************************************)
MaxLineLen == 4
MaxTokens == 4
MaxListLen == 3

(***************************************************************************)
(* Characters.                                                             *)
(***************************************************************************)
SQuote == "'"
DQuote == "\""
Digits == {"0", "1", "2", "3", "4", "5", "6", "7", "8", "9"}
Dot == "."
IdentPunct == {"-", "_", "@", "#", "$", "+", "=", "*", "&", "^", "%", "!"}
Alphabetic == {"a", "b", "x", "y", "U+00E9"}
WhiteSpaceChars == {" ", "U+00A0"}
Parens == {"(", ")"}
OtherChars == {"?"}

AllChars ==
    {SQuote, DQuote, Dot} \cup Digits \cup IdentPunct \cup Alphabetic
        \cup WhiteSpaceChars \cup Parens \cup OtherChars

\* The number of bytes of a character's UTF-8 encoding.
Utf8Len(c) == IF c \in {"U+00E9", "U+00A0"} THEN 2 ELSE 1

is_whitespace(c) == c \in WhiteSpaceChars
is_digit(c) == c \in Digits
is_alphabetic(c) == c \in Alphabetic
is_identifier(c) == is_alphabetic(c) \/ c \in IdentPunct

\* The closures handed to advance_while, each as the set of characters it accepts.
NotDQuote == AllChars \ {DQuote}
WhiteSpaceRun == {c \in AllChars : is_whitespace(c)}
NumberRun == {c \in AllChars : is_digit(c) \/ c = Dot}
IdentifierRun == {c \in AllChars : is_identifier(c)}

(***************************************************************************)
(* Byte offsets and str slicing.                                           *)
(***************************************************************************)
RECURSIVE ByteOffset(_, _)
\* The byte offset at which the character of index i (from 0) starts.
ByteOffset(line, i) ==
    IF i = 0 THEN 0 ELSE ByteOffset(line, i - 1) + Utf8Len(line[i])

RECURSIVE BoundaryFrom(_, _, _, _)
\* The index of the character that starts at byte b, looked for from the
\* character of index i, which starts at byte off; Len(line) for the end of
\* the line, -1 when b is inside a character or past the line.
BoundaryFrom(line, i, off, b) ==
    IF off = b THEN i
    ELSE IF off > b \/ i >= Len(line) THEN -1
    ELSE BoundaryFrom(line, i + 1, off + Utf8Len(line[i + 1]), b)

is_char_boundary(line, b) == BoundaryFrom(line, 0, 0, b) # -1

\* &line[from..to] with byte indices: the characters of that byte range, or a
\* panic when an end is past the line or inside a character.
str_slice(line, from, to) ==
    IF from <= to /\ is_char_boundary(line, from) /\ is_char_boundary(line, to)
    THEN [panic |-> FALSE,
          str |-> SubSeq(line, BoundaryFrom(line, 0, 0, from) + 1,
                               BoundaryFrom(line, 0, 0, to))]
    ELSE [panic |-> TRUE, str |-> <<>>]

(***************************************************************************)
(* Scanner.                                                                *)
(***************************************************************************)
Tok(tag, str) == [tag |-> tag, text |-> str]
TokItem(tok, position) == [token |-> tok, position |-> position]
NoTokItem == TokItem(Tok("None", <<>>), 0)

\* chars().nth(pos): indexes by character.
peek(line, pos) ==
    IF pos < Len(line) THEN [ok |-> TRUE, ch |-> line[pos + 1]]
    ELSE [ok |-> FALSE, ch |-> "EOF"]

\* The cursor after one advance: it moves only when peek succeeds.
advance(line, pos) == IF peek(line, pos).ok THEN pos + 1 ELSE pos

\* The cursor where advance_while's loop stops: the first index at or after
\* pos that is the end of the line or holds a character the check rejects.
RunEnd(line, pos, accept) ==
    CHOOSE e \in pos..Len(line) :
        /\ \A i \in pos..(e - 1) : line[i + 1] \in accept
        /\ e = Len(line) \/ line[e + 1] \notin accept

\* advance_while: kind is "SomeOk" (with the slice and the new cursor),
\* "SomeErr", "None", or "Panic" when the slice panics.
advance_while(line, pos, accept) ==
    LET p == peek(line, pos)
        e == RunEnd(line, pos, accept)
        s == str_slice(line, pos, e)
    IN  IF p.ok /\ p.ch \in accept
        THEN IF s.panic
             THEN [kind |-> "Panic", str |-> <<>>, pos |-> e]
             ELSE [kind |-> "SomeOk", str |-> s.str, pos |-> e]
        ELSE IF ~p.ok
        THEN [kind |-> "SomeErr", str |-> <<>>, pos |-> pos]
        ELSE [kind |-> "None", str |-> <<>>, pos |-> pos]

NextOk(item, pos) == [st |-> "ok", item |-> item, pos |-> pos]
NextEof(pos) == [st |-> "eof", item |-> NoTokItem, pos |-> pos]
NextPanic(pos) == [st |-> "panic", item |-> NoTokItem, pos |-> pos]

\* A run token: advance_while(..).unwrap().unwrap() wrapped in its token.
RunToken(line, pos, accept, tag) ==
    LET r == advance_while(line, pos, accept)
    IN  IF r.kind = "SomeOk"
        THEN NextOk(TokItem(Tok(tag, r.str), pos), r.pos)
        ELSE NextPanic(r.pos)

\* The string arm of next.
StringToken(line, pos) ==
    LET start == pos
        r == advance_while(line, advance(line, pos), NotDQuote)
    IN  IF r.kind # "SomeOk" THEN NextPanic(r.pos)
        ELSE IF ~peek(line, r.pos).ok THEN NextPanic(r.pos)
        ELSE NextOk(TokItem(Tok("String", r.str), start), advance(line, r.pos))

\* A one-character token: its position is the cursor after advance, less one.
CharToken(line, pos, tag) ==
    LET after == advance(line, pos)
    IN  NextOk(TokItem(Tok(tag, <<>>), IF after = 0 THEN 0 ELSE after - 1), after)

\* Scanner::next at cursor pos.
ScanNext(line, pos) ==
    LET p == peek(line, pos)
        ch == p.ch
    IN  IF ~p.ok THEN NextEof(pos)
        ELSE IF ch = SQuote THEN CharToken(line, pos, "Quote")
        ELSE IF ch = DQuote THEN StringToken(line, pos)
        ELSE IF is_whitespace(ch) THEN RunToken(line, pos, WhiteSpaceRun, "WhiteSpace")
        ELSE IF is_digit(ch) THEN RunToken(line, pos, NumberRun, "Number")
        ELSE IF is_identifier(ch) THEN RunToken(line, pos, IdentifierRun, "Symbol")
        ELSE IF ch = "(" THEN CharToken(line, pos, "LParen")
        ELSE IF ch = ")" THEN CharToken(line, pos, "RParen")
        ELSE NextPanic(pos)

RECURSIVE ScanFrom(_, _, _)
\* scan_all's loop from cursor pos with acc already pushed.
ScanFrom(line, pos, acc) ==
    LET r == ScanNext(line, pos)
    IN  IF r.st = "ok" THEN ScanFrom(line, r.pos, Append(acc, r.item))
        ELSE [panic |-> r.st = "panic", toks |-> acc]

\* Scanner::new followed by scan_all.
scan_all(line) == ScanFrom(line, 0, <<>>)

(***************************************************************************)
(* Atoms and expressions.  An f32 is modelled as an exact decimal num/den  *)
(* with den the least power of ten; rounding is not modelled.              *)
(***************************************************************************)
AtomSymbol(str) == [tag |-> "Symbol", str |-> str, num |-> 0, den |-> 1]
AtomString(str) == [tag |-> "String", str |-> str, num |-> 0, den |-> 1]
AtomNumber(num, den) == [tag |-> "Number", str |-> <<>>, num |-> num, den |-> den]
NoAtom == [tag |-> "None", str |-> <<>>, num |-> 0, den |-> 1]

ExprAtom(atom) == [kind |-> "Atom", atom |-> atom, items |-> <<>>]
ExprList(items) == [kind |-> "List", atom |-> NoAtom, items |-> items]
NoExpr == [kind |-> "None", atom |-> NoAtom, items |-> <<>>]

DigitValue(c) ==
    CASE c = "0" -> 0 [] c = "1" -> 1 [] c = "2" -> 2 [] c = "3" -> 3
      [] c = "4" -> 4 [] c = "5" -> 5 [] c = "6" -> 6 [] c = "7" -> 7
      [] c = "8" -> 8 [] c = "9" -> 9

RECURSIVE DigitsValue(_)
\* The integer a sequence of decimal digits writes (0 for none).
DigitsValue(str) ==
    IF str = <<>> THEN 0
    ELSE 10 * DigitsValue(SubSeq(str, 1, Len(str) - 1)) + DigitValue(str[Len(str)])

RECURSIVE Pow10(_)
Pow10(k) == IF k = 0 THEN 1 ELSE 10 * Pow10(k - 1)

RECURSIVE Decimal(_, _)
\* num/den with den the least power of ten that writes the same number.
Decimal(num, den) ==
    IF den > 1 /\ num % 10 = 0 THEN Decimal(num \div 10, den \div 10)
    ELSE [num |-> num, den |-> den]

DotsAt(str) == {i \in 1..Len(str) : str[i] = Dot}

\* str::parse::<f32> on a run of digits and dots that starts with a digit:
\* Ok for digits with at most one dot, Err for more than one dot.
parse_f32(str) ==
    IF Cardinality(DotsAt(str)) > 1 THEN [ok |-> FALSE, num |-> 0, den |-> 1]
    ELSE IF DotsAt(str) = {}
    THEN [ok |-> TRUE, num |-> DigitsValue(str), den |-> 1]
    ELSE LET d == CHOOSE i \in DotsAt(str) : TRUE
             whole == SubSeq(str, 1, d - 1)
             frac == SubSeq(str, d + 1, Len(str))
             v == Decimal(DigitsValue(whole \o frac), Pow10(Len(frac)))
         IN  [ok |-> TRUE, num |-> v.num, den |-> v.den]

(***************************************************************************)
(* Parser.  A call's result is st "ok", "err" (a ParseError value) or      *)
(* "panic", with the cursor the call leaves behind.                        *)
(***************************************************************************)
IsWhiteSpace(item) == item.token.tag = "WhiteSpace"

\* Parser::new: scan_all's tokens without the WhiteSpace ones, cursor 0.
Parser_new(line) ==
    SelectSeq(scan_all(line).toks, LAMBDA item : ~IsWhiteSpace(item))

get_token(toks, pos) ==
    IF pos < Len(toks) THEN [ok |-> TRUE, item |-> toks[pos + 1]]
    ELSE [ok |-> FALSE, item |-> NoTokItem]

at_eof(toks, pos) == pos >= Len(toks)

\* A cursor that steps over two tokens at a time.
Parser_advance_by_two(pos) == pos + 2

Parser_advance(pos) == pos + 1

POk(atom, val, pos) ==
    [st |-> "ok", err |-> "none", tok |-> NoTokItem, atom |-> atom,
     val |-> val, pos |-> pos]
PErrEOF(pos) ==
    [st |-> "err", err |-> "EOF", tok |-> NoTokItem, atom |-> NoAtom,
     val |-> NoExpr, pos |-> pos]
PErrUnexpected(item, pos) ==
    [st |-> "err", err |-> "UnexpectedToken", tok |-> item, atom |-> NoAtom,
     val |-> NoExpr, pos |-> pos]
PPanic(pos) ==
    [st |-> "panic", err |-> "none", tok |-> NoTokItem, atom |-> NoAtom,
     val |-> NoExpr, pos |-> pos]

match_token(toks, pos, tok) ==
    LET g == get_token(toks, pos)
    IN  IF ~g.ok THEN PErrEOF(pos)
        ELSE IF g.item.token = tok THEN POk(NoAtom, NoExpr, Parser_advance(pos))
        ELSE PErrUnexpected(g.item, pos)

parse_atom(toks, pos) ==
    LET g == get_token(toks, pos)
        t == g.item.token
        n == parse_f32(t.text)
    IN  IF at_eof(toks, pos) THEN PErrEOF(pos)
        ELSE IF t.tag = "Number"
        THEN IF n.ok THEN POk(AtomNumber(n.num, n.den), NoExpr, Parser_advance(pos))
             ELSE PPanic(pos)
        ELSE IF t.tag = "String"
        THEN POk(AtomString(t.text), NoExpr, Parser_advance(pos))
        ELSE IF t.tag = "Symbol"
        THEN POk(AtomSymbol(t.text), NoExpr, Parser_advance(pos))
        ELSE PErrUnexpected(g.item, pos)

RECURSIVE parse_list(_, _)
RECURSIVE parse_expr(_, _)
RECURSIVE ListLoop(_, _, _)

\* parse_list's loop "while let Ok(expr) = self.parse_expr()": the children
\* pushed and the cursor the first failing parse_expr leaves behind.
ListLoop(toks, pos, list) ==
    LET r == parse_expr(toks, pos)
    IN  IF r.st = "ok" THEN ListLoop(toks, r.pos, Append(list, r.val))
        ELSE [panic |-> r.st = "panic", list |-> list, pos |-> r.pos]

parse_list(toks, pos) ==
    IF at_eof(toks, pos) THEN PErrEOF(pos)
    ELSE LET open == match_token(toks, pos, Tok("LParen", <<>>))
         IN  IF open.st # "ok" THEN open
             ELSE LET loop == ListLoop(toks, open.pos, <<>>)
                      close == match_token(toks, loop.pos, Tok("RParen", <<>>))
                  IN  IF loop.panic THEN PPanic(loop.pos)
                      ELSE IF close.st # "ok" THEN close
                      ELSE POk(NoAtom, ExprList(loop.list), close.pos)

parse_expr(toks, pos) ==
    LET a == parse_atom(toks, pos)
    IN  IF a.st = "ok" THEN POk(NoAtom, ExprAtom(a.atom), a.pos)
        ELSE IF a.st = "panic" THEN a
        ELSE parse_list(toks, pos)

(***************************************************************************)
(* Evaluator.  eval returns an Atom or panics: unimplemented!("later")     *)
(* panics with "not implemented: later", todo!("later") with               *)
(* "not yet implemented: later".                                           *)
(***************************************************************************)
Value(atom) == [kind |-> "Value", atom |-> atom, msg |-> "none"]
Unimplemented == [kind |-> "Panic", atom |-> NoAtom, msg |-> "not implemented: later"]
Todo == [kind |-> "Panic", atom |-> NoAtom, msg |-> "not yet implemented: later"]

is_operator(e) ==
    /\ e.kind = "Atom"
    /\ e.atom.tag = "Symbol"
    /\ e.atom.str \in {<<"+">>, <<"-">>, <<"*">>, <<"/">>}

\* A length test that lets a list of one element through.
TooShort_only_empty(list) == Len(list) < 1

\* list.len() <= 1
TooShort(list) == Len(list) <= 1

\* f32 addition and subtraction, on exact decimals.
AddF32(a, b) == Decimal(a.num * b.den + b.num * a.den, a.den * b.den)
SubF32(a, b) == Decimal(a.num * b.den - b.num * a.den, a.den * b.den)

\* The closure folded for "+".
AddStep(acc, atom) == IF atom.tag = "Number" THEN AddF32(acc, atom) ELSE acc

\* A "-" closure that adds, as the "+" closure does.
SubStep_adds(acc, atom) == IF atom.tag = "Number" THEN AddF32(acc, atom) ELSE acc

\* The closure folded for "-".
SubStep(acc, atom) == IF atom.tag = "Number" THEN SubF32(acc, atom) ELSE acc

RECURSIVE Eval(_)
RECURSIVE Fold(_, _, _, _)

\* list.iter().skip(1).map(|e| self.eval(e)).fold(0.0, step) from element i
\* on: the elements are evaluated in order, and a panic ends the fold.
Fold(op, list, i, acc) ==
    IF i > Len(list) THEN Value(AtomNumber(acc.num, acc.den))
    ELSE LET v == Eval(list[i])
         IN  IF v.kind = "Panic" THEN v
             ELSE Fold(op, list, i + 1,
                       IF op = <<"+">> THEN AddStep(acc, v.atom)
                       ELSE SubStep(acc, v.atom))

\* Evaluator::eval.
Eval(e) ==
    IF e.kind = "Atom" THEN Value(e.atom)
    ELSE IF TooShort(e.items) THEN Unimplemented
    ELSE IF e.items[1].kind = "List" THEN Unimplemented
    ELSE IF is_operator(e.items[1])
    THEN IF e.items[1].atom.str \in {<<"+">>, <<"-">>}
         THEN Fold(e.items[1].atom.str, e.items, 2, [num |-> 0, den |-> 1])
         ELSE Todo
    ELSE Todo

(***************************************************************************)
(* Values of the variables a specification does not use.                   *)
(***************************************************************************)
Call(op, at, r) ==
    [op |-> op, at |-> at, st |-> r.st, err |-> r.err, tok |-> r.tok,
     atom |-> r.atom, val |-> r.val]
NoCall ==
    [op |-> "none", at |-> 0, st |-> "none", err |-> "none", tok |-> NoTokItem,
     atom |-> NoAtom, val |-> NoExpr]
NoValue == [kind |-> "None", atom |-> NoAtom, msg |-> "none"]

LexIdle ==
    /\ text = <<>> /\ current_pos = 0 /\ result = <<>> /\ tok_start = 0
    /\ starts = <<>> /\ outcome = "none" /\ pc = "idle"
ParseIdle == tokens = <<>> /\ p_pos = 0 /\ last = NoCall
EvalIdle == expr = NoExpr /\ value = NoValue

(***************************************************************************)
(* The scanner's specification: Scanner::new over a line, then scan_all,   *)
(* one call of next per step.                                              *)
(***************************************************************************)
LexAlphabet ==
    {SQuote, DQuote, " ", "U+00A0", "1", Dot, "a", "U+00E9", "(", ")", "?"}

RECURSIVE SeqsUpTo(_, _)
\* The sequences over S of length at most n.
SeqsUpTo(S, n) ==
    IF n = 0 THEN {<<>>}
    ELSE LET shorter == SeqsUpTo(S, n - 1)
         IN  shorter \cup {Append(q, c) : q \in shorter, c \in S}

LexInit ==
    /\ text \in SeqsUpTo(LexAlphabet, MaxLineLen)
    /\ current_pos = 0
    /\ result = <<>>
    /\ tok_start = 0
    /\ starts = <<>>
    /\ outcome = "none"
    /\ pc = "scanning"
    /\ ParseIdle
    /\ EvalIdle

\* One iteration of scan_all's loop: a call of next, and what the loop does
\* with its result (push the token, return on Err; a panic unwinds).
Scanner_next ==
    /\ pc = "scanning"
    /\ LET r == ScanNext(text, current_pos)
       IN  /\ tok_start' = current_pos
           /\ outcome' = r.st
           /\ current_pos' = r.pos
           /\ result' = IF r.st = "ok" THEN Append(result, r.item) ELSE result
           /\ starts' = IF r.st = "ok" THEN Append(starts, current_pos) ELSE starts
           /\ pc' = CASE r.st = "ok" -> "scanning"
                      [] r.st = "eof" -> "done"
                      [] OTHER -> "panicked"
    /\ UNCHANGED <<text, parseVars, evalVars>>

LexNext == Scanner_next

Spec == LexInit /\ [][LexNext]_vars

(***************************************************************************)
(* Properties of the scanner.                                              *)
(***************************************************************************)
\* The characters of the line a token stands for.
Span(item) ==
    CASE item.token.tag = "Quote" -> <<SQuote>>
      [] item.token.tag = "LParen" -> <<"(">>
      [] item.token.tag = "RParen" -> <<")">>
      [] item.token.tag = "String" -> <<DQuote>> \o item.token.text \o <<DQuote>>
      [] OTHER -> item.token.text

RECURSIVE ConcatSpans(_)
ConcatSpans(items) ==
    IF items = <<>> THEN <<>>
    ELSE Span(Head(items)) \o ConcatSpans(Tail(items))

\* C1: whenever scan_all returns, the spans of its tokens (whitespace tokens
\* included), concatenated in order, are the line: nothing is dropped,
\* duplicated or reordered.
C1_SpansReconstructLine ==
    pc = "done" => ConcatSpans(result) = text

CalledAtDQuote ==
    /\ outcome # "none"
    /\ tok_start < Len(text)
    /\ text[tok_start + 1] = DQuote

ClosingQuotes == {q \in (tok_start + 2)..Len(text) : text[q] = DQuote}

\* C2: a call of next at an opening double quote that no later double quote
\* closes ends in an error result: no panic, and the cursor stays in the line.
C2_UnterminatedStringIsError ==
    (CalledAtDQuote /\ ClosingQuotes = {}) =>
        (outcome = "eof" /\ current_pos <= Len(text))

\* C7: the tokens scan_all returns are in source order with strictly
\* increasing positions, and each position is the byte offset at which the
\* token's first character starts.
C7_PositionsAreByteOffsets ==
    pc = "done" =>
        /\ \A i \in 1..(Len(result) - 1) :
               result[i].position < result[i + 1].position
        /\ \A i \in 1..Len(result) :
               result[i].position = ByteOffset(text, starts[i])

\* C9: a call of next at a double quote that a later double quote closes
\* returns the String token of the characters strictly between the two, at
\* the opening quote's position, and leaves the cursor just past the closing
\* quote.
C9_StringTokenBetweenQuotes ==
    (CalledAtDQuote /\ ClosingQuotes # {}) =>
        LET q == CHOOSE c \in ClosingQuotes : \A d \in ClosingQuotes : c <= d
        IN  /\ outcome = "ok"
            /\ result # <<>>
            /\ result[Len(result)] =
                   TokItem(Tok("String", SubSeq(text, tok_start + 2, q - 1)),
                           ByteOffset(text, tok_start))
            /\ current_pos = q

(***************************************************************************)
(* The parser's specification: Parser::new over a line of at most          *)
(* MaxTokens lexemes separated by single spaces, then parse_atom,          *)
(* parse_list and parse_expr called in any order until one panics.         *)
(***************************************************************************)
Lexemes ==
    {<<"(">>, <<")">>, <<SQuote>>, <<"a">>, <<"1">>, <<"1", Dot, Dot>>,
     <<DQuote, "b", DQuote>>}

RECURSIVE Join(_)
\* The lexemes in order, a space between neighbours.
Join(lexemes) ==
    IF lexemes = <<>> THEN <<>>
    ELSE IF Len(lexemes) = 1 THEN lexemes[1]
    ELSE lexemes[1] \o <<" ">> \o Join(Tail(lexemes))

ParseInit ==
    /\ \E ls \in SeqsUpTo(Lexemes, MaxTokens) : text = Join(ls)
    /\ result = <<>>
    /\ current_pos = 0 /\ tok_start = 0 /\ starts = <<>>
    /\ outcome = "none" /\ pc = "idle"
    /\ tokens = Parser_new(text)
    /\ p_pos = 0
    /\ last = NoCall
    /\ EvalIdle

Returned(op, r) ==
    /\ last' = Call(op, p_pos, r)
    /\ p_pos' = r.pos
    /\ UNCHANGED <<tokens, lexVars, evalVars>>

Parser_parse_atom ==
    /\ last.st # "panic"
    /\ Returned("parse_atom", parse_atom(tokens, p_pos))

Parser_parse_list ==
    /\ last.st # "panic"
    /\ Returned("parse_list", parse_list(tokens, p_pos))

Parser_parse_expr ==
    /\ last.st # "panic"
    /\ Returned("parse_expr", parse_expr(tokens, p_pos))

ParseNext == Parser_parse_atom \/ Parser_parse_list \/ Parser_parse_expr

SpecParse == ParseInit /\ [][ParseNext]_vars

(***************************************************************************)
(* Properties of the parser.                                               *)
(***************************************************************************)
IsAtomToken(item) == item.token.tag \in {"Number", "String", "Symbol"}
IsLParen(item) == item.token.tag = "LParen"
IsRParen(item) == item.token.tag = "RParen"

RECURSIVE FormEnd(_, _)
RECURSIVE ChildrenStop(_, _)

\* The index (from 1) of the last token of the complete form that starts at
\* index i, or 0 when no complete form starts there.
FormEnd(toks, i) ==
    IF i > Len(toks) THEN 0
    ELSE IF IsAtomToken(toks[i]) THEN i
    ELSE IF IsLParen(toks[i])
    THEN LET j == ChildrenStop(toks, i + 1)
         IN  IF j <= Len(toks) /\ IsRParen(toks[j]) THEN j ELSE 0
    ELSE 0

\* The index just past the longest run of complete forms that starts at i.
ChildrenStop(toks, i) ==
    IF FormEnd(toks, i) = 0 THEN i ELSE ChildrenStop(toks, FormEnd(toks, i) + 1)

AtomOf(item) ==
    CASE item.token.tag = "Symbol" -> AtomSymbol(item.token.text)
      [] item.token.tag = "String" -> AtomString(item.token.text)
      [] item.token.tag = "Number" ->
           AtomNumber(parse_f32(item.token.text).num, parse_f32(item.token.text).den)

RECURSIVE TreeOf(_, _)
RECURSIVE TreesOf(_, _)

\* The tree of the complete form that starts at index i.
TreeOf(toks, i) ==
    IF IsAtomToken(toks[i]) THEN ExprAtom(AtomOf(toks[i]))
    ELSE ExprList(TreesOf(toks, i + 1))

\* The trees of the run of complete forms that starts at index i.
TreesOf(toks, i) ==
    IF FormEnd(toks, i) = 0 THEN <<>>
    ELSE <<TreeOf(toks, i)>> \o TreesOf(toks, FormEnd(toks, i) + 1)

\* C3: parse_expr called where a complete form starts returns that form's
\* tree (atoms as Atom nodes, groups as Lists of their sub-forms in order)
\* and leaves the cursor just past the form's last token.
C3_ParseExprReturnsTheForm ==
    (last.op = "parse_expr" /\ FormEnd(tokens, last.at + 1) # 0) =>
        /\ last.st = "ok"
        /\ last.val = TreeOf(tokens, last.at + 1)
        /\ p_pos = FormEnd(tokens, last.at + 1)

\* C5: parse_atom, parse_list and parse_expr end by returning a value, Ok or
\* a ParseError; none of them panics.
C5_ParserNeverPanics ==
    last.op \in {"parse_atom", "parse_list", "parse_expr"} => last.st # "panic"

\* C6: parse_list on a list without its closing paren, when it returns,
\* returns the error that names the token following the last child that
\* parses (UnexpectedToken of it), or EOF when no token follows.
C6_UnclosedListErrorNamesNextToken ==
    LET stop == ChildrenStop(tokens, last.at + 2)
    IN  (/\ last.op = "parse_list"
         /\ last.st # "panic"
         /\ last.at < Len(tokens)
         /\ IsLParen(tokens[last.at + 1])
         /\ ~(stop <= Len(tokens) /\ IsRParen(tokens[stop])))
        => /\ last.st = "err"
           /\ IF stop > Len(tokens) THEN last.err = "EOF"
              ELSE last.err = "UnexpectedToken" /\ last.tok = tokens[stop]

BufferAndCursorInBounds ==
    /\ \A i \in 1..Len(tokens) : ~IsWhiteSpace(tokens[i])
    /\ 0 <= p_pos /\ p_pos <= Len(tokens)

CursorOnlyForward ==
    /\ tokens' = tokens
    /\ p_pos' >= p_pos
    /\ last'.op = "parse_atom" => p_pos' <= p_pos + 1

\* C10: across any sequence of parser calls the token buffer stays as
\* Parser::new built it and holds no WhiteSpace token, and the cursor stays
\* within 0..Len(tokens), never decreases and moves one token at a time
\* over tokens that exist.
C10_BufferFixedCursorMonotone ==
    [](BufferAndCursorInBounds) /\ [][CursorOnlyForward]_vars

C10_Witness ==
    /\ last.op = "parse_list" /\ last.st = "ok"
    /\ last.at > 0
    /\ p_pos = Len(tokens)
    /\ \E i \in 1..Len(text) : is_whitespace(text[i])

(***************************************************************************)
(* The evaluator's specification: eval applied to an expression of at most *)
(* MaxListLen elements, each an atom or a short list.                      *)
(***************************************************************************)
Sym(c) == ExprAtom(AtomSymbol(<<c>>))
Num(n) == ExprAtom(AtomNumber(n, 1))
Str(c) == ExprAtom(AtomString(<<c>>))

EvalAtoms ==
    {Sym("+"), Sym("-"), Sym("*"), Sym("/"), Sym("a"), Num(1), Num(2), Str("s")}

InnerLists ==
    {ExprList(<<>>), ExprList(<<Sym("+")>>)}
        \cup {ExprList(<<h, x>>) :
                h \in {Sym("+"), Sym("-"), Sym("*"), Sym("a")},
                x \in {Num(1), Num(2), Sym("a")}}

EvalInit ==
    /\ \/ expr \in EvalAtoms
       \/ \E q \in SeqsUpTo(EvalAtoms \cup InnerLists, MaxListLen) :
              expr = ExprList(q)
    /\ value = NoValue
    /\ LexIdle
    /\ ParseIdle

Evaluator_eval ==
    /\ value = NoValue
    /\ value' = Eval(expr)
    /\ UNCHANGED <<expr, lexVars, parseVars>>

EvalNext == Evaluator_eval

SpecEval == EvalInit /\ [][EvalNext]_vars

(***************************************************************************)
(* Properties of the evaluator.                                            *)
(***************************************************************************)
IsPlusOrMinus(e) ==
    e.kind = "Atom" /\ e.atom.tag = "Symbol" /\ e.atom.str \in {<<"+">>, <<"-">>}

RECURSIVE Supported(_)
\* An atom, or a list of two or more elements whose head is + or - and whose
\* other elements are all supported.
Supported(e) ==
    \/ e.kind = "Atom"
    \/ /\ e.kind = "List"
       /\ Len(e.items) >= 2
       /\ IsPlusOrMinus(e.items[1])
       /\ \A i \in 2..Len(e.items) : Supported(e.items[i])

RECURSIVE Total(_)
RECURSIVE Contribution(_, _)

\* What the elements of a supported list from index i on add to its result:
\* a number counts with the sign of the list's head, a list counts as its
\* own total, any other atom counts nothing.
Contribution(e, i) ==
    IF i > Len(e.items) THEN 0
    ELSE LET x == e.items[i]
             n == IF x.kind = "List" THEN Total(x)
                  ELSE IF x.atom.tag = "Number" THEN x.atom.num
                  ELSE 0
         IN  (IF e.items[1].atom.str = <<"+">> THEN n ELSE 0 - n)
                 + Contribution(e, i + 1)

\* 0 + x2 + ... + xn for +, 0 - x2 - ... - xn for -.
Total(e) == Contribution(e, 2)

FoldForm ==
    /\ value # NoValue
    /\ expr.kind = "List"
    /\ Len(expr.items) >= 2
    /\ IsPlusOrMinus(expr.items[1])

ReturnsTheFold ==
    /\ value.kind = "Value"
    /\ value.atom = AtomNumber(Total(expr), 1)

\* C4 as stated: for every list of two or more elements headed by + or -,
\* eval returns Number(r), r the zero-seeded left fold over the evaluated
\* remaining elements, those that are not numbers left out.
C4_FoldOfEveryPlusMinusList ==
    FoldForm => ReturnsTheFold

\* C4 as amended: for every list of two or more elements headed by + or -
\* whose remaining elements all evaluate to a value, eval returns Number(r),
\* r the zero-seeded left fold over the evaluated remaining elements, those
\* that are not numbers left out.
C4_FoldWhenArgumentsEvaluate ==
    (FoldForm /\ \A i \in 2..Len(expr.items) : Supported(expr.items[i]))
        => ReturnsTheFold

C4_Witness ==
    /\ FoldForm
    /\ expr.items[1] = Sym("-")
    /\ Len(expr.items) = 3
    /\ expr.items[2] = Num(1)
    /\ expr.items[3] = ExprList(<<Sym("-"), Num(1)>>)
    /\ value = Value(AtomNumber(0, 1))

\* C8: eval returns a value for a list exactly when the list has two or more
\* elements, its head is + or -, and every remaining element evaluates to a
\* value; for every other list it panics with a not-implemented message.
C8_OnlySupportedListsEvaluate ==
    (value # NoValue /\ expr.kind = "List") =>
        /\ value.kind = "Value" <=> Supported(expr)
        /\ value.kind # "Value" =>
               /\ value.kind = "Panic"
               /\ value.msg \in {"not implemented: later", "not yet implemented: later"}

C8_Witness ==
    /\ expr = ExprList(<<Sym("+"), Num(1), ExprList(<<Sym("*"), Num(1)>>)>>)
    /\ value = Todo

====
